---- MODULE Spec2Model ----
(***************************************************************************)
(* The snake game of src/the_snake.py: the snake, the apple, the key       *)
(* handler and the main loop, one action per statement of the loop.        *)
(* Cells are pixel pairs <<x, y>>, multiples of GRID_SIZE, as in the code.  *)
(***************************************************************************)
EXTENDS Integers, Sequences, FiniteSets, TLC

\* ------------------------------------------------------------- bounds
\* The board of the explored game is 2*HalfCols by 2*HalfRows cells (the
\* code's board has an even number of cells each way, so that the centre
\* is a cell), and the snake's length is capped.
HalfCols == 2
HalfRows == 2
MaxLength == 5
\* The snake's methods called in any order: at most MaxCalls calls of
\* grow, move and reset in a run.
MaxCalls == 5

\* ---------------------------------------------------------- constants
GRID_SIZE == 20
REF_SCREEN_WIDTH == 640
REF_SCREEN_HEIGHT == 480

UP == <<0, -1>>
DOWN == <<0, 1>>
LEFT == <<-1, 0>>
RIGHT == <<1, 0>>

\* Python's None; every real position or direction is a pair.
None == <<>>

\* Python's truth value of a tuple-or-None: None and () are false.
Truthy(v) == v /= None /\ Len(v) > 0

K_UP == "K_UP"
K_DOWN == "K_DOWN"
K_LEFT == "K_LEFT"
K_RIGHT == "K_RIGHT"
Keys == {K_UP, K_DOWN, K_LEFT, K_RIGHT}

\* -------------------------------------------------------------- state
VARIABLES
  SCREEN_WIDTH,     \* the board in pixels, fixed for a run
  SCREEN_HEIGHT,
  positions,        \* snake.positions, head first
  length,           \* snake.length
  direction,        \* snake.direction
  next_direction,   \* snake.next_direction
  last,             \* snake.last, the cell draw() has to erase
  apple_position,   \* apple.position
  new_head,         \* main's local new_head
  collided,         \* what check_self_collision() returned in this tick
  pc,               \* the statement of main about to run
  calls,            \* the grow, move and reset calls made on the snake
                    \* when its methods are called one by one
  screen            \* the display surface: the colour of every cell that
                    \* is not of the background colour

vars == <<SCREEN_WIDTH, SCREEN_HEIGHT, positions, length, direction,
          next_direction, last, apple_position, new_head, collided, pc,
          calls, screen>>

board == <<SCREEN_WIDTH, SCREEN_HEIGHT>>
snake == <<positions, length, direction, next_direction, last>>

Range(s) == {s[i] : i \in 1..Len(s)}

GRID_WIDTH == SCREEN_WIDTH \div GRID_SIZE
GRID_HEIGHT == SCREEN_HEIGHT \div GRID_SIZE

ALL_POSITIONS ==
  {<<grid_x * GRID_SIZE, grid_y * GRID_SIZE>> :
     grid_x \in 0..(GRID_WIDTH - 1), grid_y \in 0..(GRID_HEIGHT - 1)}

CENTER == <<SCREEN_WIDTH \div 2, SCREEN_HEIGHT \div 2>>

direction_list == <<RIGHT, LEFT, UP, DOWN>>

\* ------------------------------------------------------------ screen
BOARD_BACKGROUND_COLOR == "BOARD_BACKGROUND_COLOR"
APPLE_COLOR == "APPLE_COLOR"
SNAKE_COLOR == "SNAKE_COLOR"

\* screen.fill(BOARD_BACKGROUND_COLOR): no cell of another colour
filled == [c \in {} |-> BOARD_BACKGROUND_COLOR]

\* pg.draw.rect(screen, color, rect) for the rect of one cell (the
\* one-pixel border drawn on top of it is not modelled)
rect(surface, color, cell) ==
  IF color = BOARD_BACKGROUND_COLOR
  THEN [c \in (DOMAIN surface) \ {cell} |-> surface[c]]
  ELSE [c \in (DOMAIN surface) \cup {cell} |->
          IF c = cell THEN color ELSE surface[c]]

\* ------------------------------------------------------------- Apple
\* (mutant) no cell is filtered out
free_positions_unfiltered(occupied_positions) == ALL_POSITIONS

free_positions(occupied_positions) ==
  LET occupied == IF Truthy(occupied_positions) THEN occupied_positions ELSE <<>>
  IN  {pos \in ALL_POSITIONS : pos \notin Range(occupied)}

\* (mutant) the apple goes to any cell of the grid
randomize_position_unfiltered(occupied_positions) ==
  apple_position' \in ALL_POSITIONS

\* (mutant) no fallback: choice() of an empty list fails
randomize_position_no_fallback(occupied_positions) ==
  apple_position' \in free_positions(occupied_positions)

randomize_position(occupied_positions) ==
  IF free_positions(occupied_positions) /= {}
  THEN apple_position' \in free_positions(occupied_positions)
  ELSE apple_position' \in
         {<<x * GRID_SIZE, y * GRID_SIZE>> :
            x \in 0..(GRID_WIDTH - 1), y \in 0..(GRID_HEIGHT - 1)}

\* Apple.draw: the surface it leaves
apple_drawn(surface) == rect(surface, APPLE_COLOR, apple_position)

\* ------------------------------------------------------------- Snake
get_head_position == positions[1]

update_direction ==
  /\ direction' = IF Truthy(next_direction) THEN next_direction ELSE direction
  /\ UNCHANGED <<positions, length, next_direction, last>>

\* (mutant) the step is not wrapped
moved_head_unwrapped ==
  <<get_head_position[1] + direction[1] * GRID_SIZE,
    get_head_position[2] + direction[2] * GRID_SIZE>>

moved_head ==
  <<(get_head_position[1] + direction[1] * GRID_SIZE) % SCREEN_WIDTH,
    (get_head_position[2] + direction[2] * GRID_SIZE) % SCREEN_HEIGHT>>

\* (mutant) >= for >: the tail is dropped one cell early
move_drop_at_length ==
  LET inserted == <<moved_head>> \o positions
  IN  /\ IF Len(inserted) >= length /\ Len(inserted) > 1
         THEN /\ last' = inserted[Len(inserted)]
              /\ positions' = SubSeq(inserted, 1, Len(inserted) - 1)
         ELSE /\ last' = None
              /\ positions' = inserted
      /\ UNCHANGED <<length, direction, next_direction>>

move ==
  LET inserted == <<moved_head>> \o positions
  IN  /\ IF Len(inserted) > length
         THEN /\ last' = inserted[Len(inserted)]
              /\ positions' = SubSeq(inserted, 1, Len(inserted) - 1)
         ELSE /\ last' = None
              /\ positions' = inserted
      /\ UNCHANGED <<length, direction, next_direction>>

\* (mutant) positions[1:-1] for positions[1:]
check_self_collision_short ==
  get_head_position \in Range(SubSeq(positions, 2, Len(positions) - 1))

check_self_collision ==
  get_head_position \in Range(SubSeq(positions, 2, Len(positions)))

\* (mutant) the body grows at once
grow_instant ==
  /\ length' = length + 1
  /\ positions' = Append(positions, positions[Len(positions)])
  /\ UNCHANGED <<direction, next_direction, last>>

grow ==
  /\ length' = length + 1
  /\ UNCHANGED <<positions, direction, next_direction, last>>

\* (mutant) the pending direction survives the reset
reset_keep_pending ==
  /\ length' = 1
  /\ positions' = <<CENTER>>
  /\ direction' \in Range(direction_list)
  /\ UNCHANGED next_direction
  /\ last' = None

\* The snake reset() leaves when choice(direction_list) returns d.
reset_result(d) ==
  [length |-> 1, positions |-> <<CENTER>>, direction |-> d,
   next_direction |-> None, last |-> None]

reset ==
  \E d \in Range(direction_list) :
    /\ length' = reset_result(d).length
    /\ positions' = reset_result(d).positions
    /\ direction' = reset_result(d).direction
    /\ next_direction' = reset_result(d).next_direction
    /\ last' = reset_result(d).last

\* Snake.draw: the surface it leaves, the head painted and last erased
snake_drawn(surface) ==
  LET head_painted == rect(surface, SNAKE_COLOR, get_head_position)
  IN  IF Truthy(last) THEN rect(head_painted, BOARD_BACKGROUND_COLOR, last)
      ELSE head_painted

draw ==
  /\ last' = None
  /\ UNCHANGED <<positions, length, direction, next_direction>>

\* --------------------------------------------------------- handle_keys
\* The direction a key asks for, and the direction that forbids it.
requested(key) ==
  CASE key = K_UP -> UP
    [] key = K_DOWN -> DOWN
    [] key = K_LEFT -> LEFT
    [] key = K_RIGHT -> RIGHT

forbidden(key) ==
  CASE key = K_UP -> DOWN
    [] key = K_DOWN -> UP
    [] key = K_LEFT -> RIGHT
    [] key = K_RIGHT -> LEFT

\* (mutant) the reversal is not refused
key_down_unguarded(key) ==
  /\ next_direction' = requested(key)
  /\ UNCHANGED <<positions, length, direction, last>>

key_down(key) ==
  /\ next_direction' = IF direction /= forbidden(key)
                       THEN requested(key) ELSE next_direction
  /\ UNCHANGED <<positions, length, direction, last>>

\* ---------------------------------------------------------------- main
\* (mutant) the direction reset() drew is kept
Constructed_random_direction ==
  /\ \E d \in Range(direction_list) :
       /\ length = reset_result(d).length
       /\ positions = reset_result(d).positions
       /\ direction = reset_result(d).direction
       /\ next_direction = reset_result(d).next_direction
       /\ last = reset_result(d).last
  /\ apple_position \in free_positions(positions)
  /\ new_head = None
  /\ collided = FALSE

\* snake = Snake(); apple = Apple(occupied_positions=snake.positions)
\* Snake.__init__ calls reset() and then sets direction = RIGHT.
Constructed ==
  /\ \E d \in Range(direction_list) :
       /\ length = reset_result(d).length
       /\ positions = reset_result(d).positions
       /\ direction = RIGHT
       /\ next_direction = reset_result(d).next_direction
       /\ last = reset_result(d).last
  /\ apple_position \in free_positions(positions)
  /\ new_head = None
  /\ collided = FALSE

Init ==
  /\ SCREEN_WIDTH = 2 * HalfCols * GRID_SIZE
  /\ SCREEN_HEIGHT = 2 * HalfRows * GRID_SIZE
  /\ Constructed
  /\ pc = "keys"
  /\ calls = <<>>
  /\ screen = filled

\* handle_keys: one KEYDOWN event of the loop over pg.event.get()
KeyDown(key) ==
  /\ pc = "keys"
  /\ key_down(key)
  /\ UNCHANGED <<board, screen, apple_position, new_head, collided, pc, calls>>

\* handle_keys: a QUIT event ends the program
Quit ==
  /\ pc = "keys"
  /\ pc' = "quit"
  /\ UNCHANGED <<board, screen, snake, apple_position, new_head, collided, calls>>

\* handle_keys has no more events; snake.update_direction()
UpdateDirection ==
  /\ pc = "keys"
  /\ update_direction
  /\ pc' = "move"
  /\ UNCHANGED <<board, screen, apple_position, new_head, collided, calls>>

\* new_head = snake.move()
Move ==
  /\ pc = "move"
  /\ new_head' = moved_head
  /\ move
  /\ pc' = "check"
  /\ UNCHANGED <<board, screen, apple_position, collided, calls>>

\* (mutant) a collision ends the game
CheckCollision_game_over ==
  /\ pc = "check"
  /\ collided' = check_self_collision
  /\ pc' = IF check_self_collision THEN "over" ELSE "apple"
  /\ UNCHANGED <<board, screen, snake, apple_position, new_head, calls>>

\* if snake.check_self_collision(): snake.reset(); apple.randomize_position(..)
CheckCollision ==
  /\ pc = "check"
  /\ collided' = check_self_collision
  /\ IF check_self_collision
     THEN reset /\ randomize_position(positions')
     ELSE UNCHANGED <<snake, apple_position>>
  /\ pc' = "apple"
  /\ UNCHANGED <<board, screen, new_head, calls>>

\* if new_head == apple.position: snake.grow(); apple.randomize_position(..)
CheckApple ==
  /\ pc = "apple"
  /\ IF new_head = apple_position
     THEN /\ length < MaxLength
          /\ grow
          /\ randomize_position(positions)
     ELSE UNCHANGED <<snake, apple_position>>
  /\ pc' = "draw"
  /\ UNCHANGED <<board, screen, new_head, collided, calls>>

\* apple.draw(); snake.draw(); pg.display.update()
Draw ==
  /\ pc = "draw"
  /\ draw
  /\ pc' = "keys"
  /\ UNCHANGED <<board, screen, apple_position, new_head, collided, calls>>

NoInput == UpdateDirection \/ Move \/ CheckCollision \/ CheckApple \/ Draw

Next == (\E key \in Keys : KeyDown(key)) \/ Quit \/ NoInput

Spec == Init /\ [][Next]_vars

\* ------------------------------------------------ the game on screen
\* Spec leaves the display surface out (screen stays as filled before the
\* loop); SpecScreen is the same game with the surface followed: the two
\* statements of the loop that draw on it are taken with their drawing.

\* if snake.check_self_collision(): snake.reset(); screen.fill(..);
\* apple.randomize_position(..)
CheckCollisionOnScreen ==
  /\ pc = "check"
  /\ collided' = check_self_collision
  /\ IF check_self_collision
     THEN reset /\ screen' = filled /\ randomize_position(positions')
     ELSE UNCHANGED <<snake, screen, apple_position>>
  /\ pc' = "apple"
  /\ UNCHANGED <<board, new_head, calls>>

\* apple.draw(); snake.draw(); pg.display.update()
DrawOnScreen ==
  /\ pc = "draw"
  /\ screen' = snake_drawn(apple_drawn(screen))
  /\ draw
  /\ pc' = "keys"
  /\ UNCHANGED <<board, apple_position, new_head, collided, calls>>

NextScreen ==
  \/ \E key \in Keys : KeyDown(key)
  \/ Quit
  \/ UpdateDirection
  \/ Move
  \/ CheckCollisionOnScreen
  \/ CheckApple
  \/ DrawOnScreen

SpecScreen == Init /\ [][NextScreen]_vars

\* ------------------------------------------- the reference scenario
\* The 640x480 board with the apple on cell (20, 12), run without input.
InitReference ==
  /\ SCREEN_WIDTH = REF_SCREEN_WIDTH
  /\ SCREEN_HEIGHT = REF_SCREEN_HEIGHT
  /\ Constructed
  /\ apple_position = <<20 * GRID_SIZE, 12 * GRID_SIZE>>
  /\ pc = "keys"
  /\ calls = <<>>
  /\ screen = filled

OnReferenceBoard == SCREEN_WIDTH = REF_SCREEN_WIDTH

NextEating ==
  \/ OnReferenceBoard /\ NoInput
  \/ ~OnReferenceBoard /\ Next

\* The explored game together with the reference scenario.
SpecEating == (Init \/ InitReference) /\ [][NextEating]_vars

\* ------------------------------- the snake's methods, called one by one
InitSnake ==
  /\ SCREEN_WIDTH = 2 * HalfCols * GRID_SIZE
  /\ SCREEN_HEIGHT = 2 * HalfRows * GRID_SIZE
  /\ Constructed
  /\ pc = "api"
  /\ calls = <<>>
  /\ screen = filled

CallKeyDown ==
  /\ pc = "api"
  /\ \E key \in Keys : key_down(key)
  /\ UNCHANGED <<board, screen, apple_position, new_head, collided, pc, calls>>

CallUpdateDirection ==
  /\ pc = "api"
  /\ update_direction
  /\ UNCHANGED <<board, screen, apple_position, new_head, collided, pc, calls>>

CallMove ==
  /\ pc = "api"
  /\ Len(calls) < MaxCalls
  /\ new_head' = moved_head
  /\ move
  /\ calls' = Append(calls, "move")
  /\ UNCHANGED <<board, screen, apple_position, collided, pc>>

CallGrow ==
  /\ pc = "api"
  /\ Len(calls) < MaxCalls
  /\ grow
  /\ calls' = Append(calls, "grow")
  /\ UNCHANGED <<board, screen, apple_position, new_head, collided, pc>>

CallReset ==
  /\ pc = "api"
  /\ Len(calls) < MaxCalls
  /\ reset
  /\ calls' = Append(calls, "reset")
  /\ UNCHANGED <<board, screen, apple_position, new_head, collided, pc>>

NextSnake ==
  CallKeyDown \/ CallUpdateDirection \/ CallMove \/ CallGrow \/ CallReset

SpecSnake == InitSnake /\ [][NextSnake]_vars

\* --------------------------- Apple.randomize_position as a pure function
\* Every list of occupied cells of a board two rows high.
RECURSIVE SetToSeq(_)
SetToSeq(S) ==
  IF S = {} THEN <<>>
  ELSE LET x == CHOOSE y \in S : TRUE IN <<x>> \o SetToSeq(S \ {x})

InitPlace ==
  /\ SCREEN_WIDTH = 2 * HalfCols * GRID_SIZE
  /\ SCREEN_HEIGHT = 2 * GRID_SIZE
  /\ \E S \in SUBSET ALL_POSITIONS : positions = SetToSeq(S)
  /\ length = 1
  /\ direction = RIGHT
  /\ next_direction = None
  /\ last = None
  /\ apple_position = CENTER
  /\ new_head = None
  /\ collided = FALSE
  /\ pc = "place"
  /\ calls = <<>>
  /\ screen = filled

Place ==
  /\ pc = "place"
  /\ randomize_position(positions)
  /\ pc' = "placed"
  /\ UNCHANGED <<board, screen, snake, new_head, collided, calls>>

NextPlace == Place

SpecPlace == InitPlace /\ [][NextPlace]_vars

\* ================================================================ claims
Opposite(d) == <<0 - d[1], 0 - d[2]>>
Directions == {UP, DOWN, LEFT, RIGHT}
Min(a, b) == IF a < b THEN a ELSE b

\* The body before the move, seen in the state the move leaves: the cells
\* behind the new head, and the cell the move dropped, if any.
BodyBeforeMove ==
  Tail(positions) \o (IF last /= None THEN <<last>> ELSE <<>>)

\* C1: at game start and at the end of every tick the apple is on no cell
\* of the snake, provided the snake does not cover the whole board.
C1_FoodNeverOnSnake ==
  (pc = "keys" /\ Range(positions) /= ALL_POSITIONS)
    => apple_position \notin Range(positions)

\* The end of a tick in which the snake, three cells long, has just eaten.
C1_Witness ==
  /\ pc = "keys"
  /\ Len(positions) = 3
  /\ length = 4
  /\ new_head = get_head_position
  /\ apple_position \notin Range(positions)

\* C2 as stated: a new head on any segment behind the head of the body as
\* it was before the move, the last one included, resets the snake.
C2_CollisionWithBodyBeforeMove ==
  [][(pc = "check" /\ new_head \in Range(Tail(BodyBeforeMove)))
       => positions' = <<CENTER>>]_vars

\* C2 amended: a new head on a segment behind the head that the move keeps
\* (every segment of body[1:] but a last one that this move drops) resets
\* the snake, and the body stays the centre cell to the end of the tick.
C2_CollisionWithKeptBody ==
  [][/\ (pc = "check"
          /\ new_head \in Range(SubSeq(positions, 3, Len(positions))))
        => positions' = <<CENTER>>
     /\ pc \in {"apple", "draw"} => positions' = positions]_vars

\* A tick in which the snake ran into itself and was reset.
C2_Witness ==
  /\ pc \in {"apple", "draw"}
  /\ collided
  /\ positions = <<CENTER>>

\* C3: in a tick with a reset nothing grows and the apple, placed against
\* the reset body, is not placed a second time.
C3_NoGrowthOnResetTick ==
  [][(pc = "apple" /\ collided)
       => (length' = 1 /\ apple_position' = apple_position)]_vars

\* C4: a key asking for the opposite of the current direction leaves
\* next_direction as it is; any other key sets next_direction to the
\* direction it asks for.
C4_NoReversalOnRequest ==
  pc = "keys" =>
    \A key \in Keys :
      LET r == requested(key)
          expected == IF r = Opposite(direction) THEN next_direction ELSE r
      IN  ENABLED (KeyDown(key) /\ next_direction' = expected)

\* The key loop with a turn accepted and not yet applied.
C4_Witness ==
  /\ pc = "keys"
  /\ next_direction /= None
  /\ next_direction /= direction
  /\ next_direction /= Opposite(direction)
  /\ Len(positions) >= 2

\* The calls made since the last reset.
SinceReset(cs) ==
  LET resets == {i \in 1..Len(cs) : cs[i] = "reset"}
      from == IF resets = {} THEN 1
              ELSE (CHOOSE i \in resets : \A j \in resets : j <= i) + 1
  IN  SubSeq(cs, from, Len(cs))

\* C5: grow() leaves the body as it is, a move that does not collide takes
\* the body from n cells to min(n + 1, length) cells, and from a fresh
\* snake grow, grow, move, move, move gives 2, 3, 3 cells.
C5_LazyGrowth ==
  /\ [][/\ calls' = Append(calls, "grow") => positions' = positions
        /\ (calls' = Append(calls, "move") /\ ~check_self_collision')
             => Len(positions') = Min(Len(positions) + 1, length)]_vars
  /\ [](LET c == SinceReset(calls)
        IN  /\ c = <<"grow", "grow", "move">> => Len(positions) = 2
            /\ c = <<"grow", "grow", "move", "move">> => Len(positions) = 3
            /\ c = <<"grow", "grow", "move", "move", "move">>
                 => Len(positions) = 3)

\* Two grow() calls and three moves without collision on a fresh snake.
C5_Witness ==
  /\ calls = <<"grow", "grow", "move", "move", "move">>
  /\ ~check_self_collision
  /\ length = 3
  /\ Len(positions) = 3

\* A cell of the reference board, from its column and row.
Cell(cx, cy) == <<cx * GRID_SIZE, cy * GRID_SIZE>>

\* C6: in a tick without reset, a new head on the apple raises length by
\* one and places the apple on a cell off the body, the head included; a
\* new head elsewhere leaves length and the apple as they are.  On the
\* reference board, without input, the one-cell snake goes from (16,12)
\* to (17,12), (18,12), (19,12), (20,12) and has length 2 from there on.
C6_Eating ==
  /\ [][/\ (pc = "apple" /\ ~collided /\ new_head = apple_position)
             => /\ length' = length + 1
                /\ positions' = positions
                /\ get_head_position = new_head
                /\ apple_position' \in ALL_POSITIONS
                /\ apple_position' \notin Range(positions)
        /\ (pc = "apple" /\ ~collided /\ new_head /= apple_position)
             => (length' = length /\ apple_position' = apple_position)
        /\ (pc /= "apple" /\ ~(pc = "check" /\ collided'))
             => (length' = length /\ apple_position' = apple_position)
        /\ (OnReferenceBoard /\ pc = "move" /\ length = 1)
             => positions' = <<<<positions[1][1] + GRID_SIZE, positions[1][2]>>>>
       ]_vars
  /\ []((OnReferenceBoard /\ Len(positions) = 1)
          => /\ \E t \in 0..4 : positions = <<Cell(16 + t, 12)>>
             /\ direction = RIGHT
             /\ length = IF positions = <<Cell(20, 12)>>
                            /\ pc \in {"draw", "keys", "move"}
                         THEN 2 ELSE 1
             /\ (length = 1 => apple_position = Cell(20, 12)))

\* The end of the fourth tick of the reference scenario.
C6_Witness ==
  /\ OnReferenceBoard
  /\ pc = "keys"
  /\ positions = <<Cell(20, 12)>>
  /\ length = 2
  /\ apple_position /= Cell(20, 12)

InBounds(cell) ==
  /\ cell[1] \in 0..(SCREEN_WIDTH - 1)
  /\ cell[2] \in 0..(SCREEN_HEIGHT - 1)
  /\ cell[1] % GRID_SIZE = 0
  /\ cell[2] % GRID_SIZE = 0

\* One coordinate a step further on an axis of the given size, a step past
\* an edge landing on the opposite edge.
Stepped(c, d, size) ==
  IF d = 1 THEN (IF c = size - GRID_SIZE THEN 0 ELSE c + GRID_SIZE)
  ELSE IF d = -1 THEN (IF c = 0 THEN size - GRID_SIZE ELSE c - GRID_SIZE)
  ELSE c

\* C7: the new head of a move is the head one step further, a step past
\* an edge landing on the opposite edge, and every cell of the body and
\* the new head are cells of the board.
C7_Wraparound ==
  /\ [][pc = "move" =>
          /\ direction \in Directions
          /\ new_head' = <<Stepped(positions[1][1], direction[1], SCREEN_WIDTH),
                           Stepped(positions[1][2], direction[2], SCREEN_HEIGHT)>>
          /\ positions'[1] = new_head']_vars
  /\ [](/\ \A i \in 1..Len(positions) : InBounds(positions[i])
        /\ new_head /= None => InBounds(new_head))

\* A move to the right from the right edge has landed on the left edge.
C7_Witness ==
  /\ pc = "check"
  /\ direction = RIGHT
  /\ new_head[1] = 0
  /\ Len(positions) >= 2
  /\ positions[2][1] = SCREEN_WIDTH - GRID_SIZE

\* C8: with at least one cell free, the apple is placed on a cell of the
\* board that is not occupied.
C8_PlacementAvoidsOccupied ==
  (pc = "placed" /\ Range(positions) /= ALL_POSITIONS)
    => (InBounds(apple_position) /\ apple_position \notin Range(positions))

\* A placement with one cell of the board left free.
C8_Witness ==
  /\ pc = "placed"
  /\ Cardinality(Range(positions)) = Cardinality(ALL_POSITIONS) - 1
  /\ apple_position \notin Range(positions)

\* C9: update_direction applies a pending direction and clears it.
C9_PendingConsumedAndCleared ==
  [][(pc = "keys" /\ pc' = "move" /\ next_direction /= None)
       => (direction' = next_direction /\ next_direction' = None)]_vars

\* The centre cell of the board.
CentreCell ==
  <<(GRID_WIDTH \div 2) * GRID_SIZE, (GRID_HEIGHT \div 2) * GRID_SIZE>>

\* C10: reset() leaves a one-cell body on the centre cell, length 1, no
\* pending direction, no cell to erase and one of the four directions,
\* each of them possible.
C10_ResetPostcondition ==
  /\ [][calls' = Append(calls, "reset") =>
          /\ positions' = <<CentreCell>>
          /\ length' = 1
          /\ next_direction' = None
          /\ last' = None
          /\ direction' \in Directions]_vars
  /\ []((pc = "api" /\ Len(calls) < MaxCalls) =>
          \A d \in Directions : ENABLED (CallReset /\ direction' = d))

\* A reset of a snake that had grown, moved and had a turn pending.
C10_Witness ==
  /\ Len(calls) >= 4
  /\ calls[Len(calls)] = "reset"
  /\ calls[Len(calls) - 1] = "move"
  /\ positions = <<CentreCell>>
  /\ length = 1
  /\ direction = UP

NoDuplicates(s) == \A i, j \in 1..Len(s) : i /= j => s[i] /= s[j]

\* C11: at the end of every tick the body is not empty, is at most length
\* cells long and holds no cell twice.
C11_BodyInvariant ==
  pc \in {"keys", "quit"} =>
    /\ Len(positions) >= 1
    /\ Len(positions) <= length
    /\ NoDuplicates(positions)

\* The end of a tick with the snake grown to four cells or more.
C11_Witness ==
  /\ pc = "keys"
  /\ Len(positions) >= 4
  /\ Len(positions) = length
  /\ NoDuplicates(positions)

\* The model stops a snake of MaxLength cells that would eat once more.
AtLengthCap == pc = "apple" /\ new_head = apple_position /\ length >= MaxLength

\* C12: there is no game-over state: but for the player closing the window,
\* every statement of the loop can run in every state, every key event can
\* be handled, the snake stays in play, and the move after a reset takes
\* the head from the centre cell to the next cell in its direction.
C12_NoTerminalState ==
  /\ [](/\ pc \in {"keys", "move", "check", "apple", "draw", "quit"}
        /\ (pc /= "quit" /\ ~AtLengthCap) => ENABLED NoInput
        /\ pc = "keys" => \A key \in Keys : ENABLED KeyDown(key)
        /\ Len(positions) >= 1
        /\ direction \in Directions)
  /\ [][(pc = "move" /\ collided)
          => /\ positions[1] = CentreCell
             /\ positions'[1] = <<CentreCell[1] + direction[1] * GRID_SIZE,
                                  CentreCell[2] + direction[2] * GRID_SIZE>>
             /\ pc' = "check"]_vars

\* The first move after a reset has been made.
C12_Witness ==
  /\ pc = "check"
  /\ collided
  /\ new_head = positions[1]
  /\ new_head /= CentreCell
  /\ (last = CentreCell \/ positions[Len(positions)] = CentreCell)

\* C13: length never decreases but in a reset, which makes it 1, and
\* grow() adds one to length and changes nothing else of the snake.
C13_LengthMonotone ==
  [][/\ calls' = Append(calls, "reset") => length' = 1
     /\ calls' /= Append(calls, "reset") => length' >= length
     /\ calls' = Append(calls, "grow")
          => /\ length' = length + 1
             /\ positions' = positions
             /\ direction' = direction
             /\ next_direction' = next_direction]_vars

\* grow() called on a snake of two cells or more with a turn pending.
C13_Witness ==
  /\ Len(calls) >= 3
  /\ calls[Len(calls)] = "grow"
  /\ Len(positions) >= 2
  /\ length > Len(positions)
  /\ next_direction /= None
  /\ next_direction /= direction

\* C14: with every cell occupied the placement does not fail: it can yield
\* every cell of the grid, and what it yields is a cell of the grid.
C14_SaturationFallback ==
  /\ (pc = "place" /\ Range(positions) = ALL_POSITIONS)
       => \A c \in ALL_POSITIONS : ENABLED (Place /\ apple_position' = c)
  /\ (pc = "placed" /\ Range(positions) = ALL_POSITIONS)
       => InBounds(apple_position)

\* A placement on a full board, on an occupied cell.
C14_Witness ==
  /\ pc = "placed"
  /\ Range(positions) = ALL_POSITIONS
  /\ apple_position \in Range(positions)
  /\ apple_position /= CENTER

\* C15: the game starts with length 1, the body on the centre cell alone,
\* direction RIGHT, no pending direction and the apple on another cell of
\* the board; the key events before the first tick change only the
\* pending direction.
C15_InitialConfiguration ==
  /\ pc = "keys"
  /\ new_head = None
  /\ next_direction = None
  /\ []((pc = "keys" /\ new_head = None)
          => /\ length = 1
             /\ positions = <<CentreCell>>
             /\ direction = RIGHT
             /\ last = None
             /\ InBounds(apple_position)
             /\ apple_position /= CentreCell)

\* The game as constructed, no key pressed yet.
C15_Witness ==
  /\ pc = "keys"
  /\ new_head = None
  /\ next_direction = None
  /\ direction = RIGHT
  /\ positions = <<CentreCell>>
  /\ apple_position = <<0, 0>>

\* C16: with any key events in any order in each tick, the direction a
\* tick moves in is not the opposite of the direction the tick before moved
\* in, unless that tick reset the snake; so a snake of two cells or more
\* never steps onto its second segment.
C16_NoReversalAcrossTicks ==
  [][/\ \* direction keeps the direction of the last move to the next
        \* update_direction(), unless the tick resets the snake
        (pc \in {"check", "apple", "draw"} /\ ~(pc = "check" /\ collided'))
          => direction' = direction
     /\ (pc = "keys" /\ pc' = "keys") => direction' = direction
     /\ (pc = "keys" /\ pc' = "move" /\ new_head /= None /\ ~collided)
          => direction' /= Opposite(direction)
     /\ (pc = "move" /\ Len(positions) >= 2)
          => new_head' /= positions[2]]_vars

\* A turn: two moves in a row in different directions, without a reset.
C16_Witness ==
  /\ pc = "check"
  /\ ~collided
  /\ Len(positions) >= 3
  /\ positions[1][1] /= positions[3][1]
  /\ positions[1][2] /= positions[3][2]
  /\ next_direction = direction

\* The colour a cell of the board shows.
ColourAt(cell) ==
  IF cell \in DOMAIN screen THEN screen[cell] ELSE BOARD_BACKGROUND_COLOR

\* C17: after the drawing of a tick, the cells showing the snake's colour
\* are the cells of the body and the apple's cell shows the apple's colour.
C17_ScreenShowsState ==
  (pc = "keys" /\ new_head /= None) =>
    /\ \A cell \in ALL_POSITIONS :
         ColourAt(cell) = SNAKE_COLOR <=> cell \in Range(positions)
    /\ ColourAt(apple_position) = APPLE_COLOR

====
